---- MODULE Spec2Model ----
(***************************************************************************)
(* Screenshot queue (electron/ScreenshotHelper.ts) and processing pipeline *)
(* (electron/ProcessingHelper.ts) of the interview-coder main process.     *)
(*                                                                         *)
(* The main process is single threaded: every action below is the code     *)
(* that runs between two suspension points (an await on disk or network    *)
(* I/O, or a callback of fs.unlink).  An image path is modelled by the     *)
(* number of the uuid it was built from; the number of a pipeline run is   *)
(* the order in which processScreenshots created its AbortController.      *)
(*                                                                         *)
(* The specifications share the actions and differ in how many calls of    *)
(* each operation they explore: SpecQueue follows the queues far enough    *)
(* for evictions, SpecPipe follows overlapping pipeline runs, SpecErr      *)
(* every way a provider call can fail, SpecConfig configuration changes    *)
(* while runs are in flight.                                               *)
(***************************************************************************)
EXTENDS Integers, Sequences, FiniteSets, TLC

\* ScreenshotHelper.MAX_SCREENSHOTS
MAX_SCREENSHOTS == 5

\* Bounds of SpecQueue
QueueImages == 7
QueueShots == 1
QueueDeleteCalls == 1
QueueClears == 1
QueueFaults == 1
QueueRuns == 1
QueueKinds == 1

\* Bounds of SpecPipe
PipeImages == 2
PipeShots == 1
PipeDeleteCalls == 1
PipeClears == 1
PipeFaults == 1
PipeRuns == 2
PipeKinds == 1

\* Bounds of SpecErr
ErrImages == 2
ErrShots == 1
ErrDeleteCalls == 1
ErrClears == 1
ErrFaults == 0
ErrRuns == 2
ErrKinds == 4

\* Bounds of SpecConfig
ConfImages == 1
ConfShots == 1
ConfDeleteCalls == 1
ConfClears == 1
ConfFaults == 0
ConfRuns == 1
ConfKinds == 1

\* Bounds of SpecOverlap: takeScreenshot invocations that overlap
OverlapImages == 3
OverlapShots == 2
OverlapFaults == 1

\* Bound of SpecParse: the number of tokens of a response
MaxLen == 4

Max(a, b) == IF a > b THEN a ELSE b

Min(a, b) == IF a < b THEN a ELSE b

Ids == 1..Max(Max(Max(QueueImages, PipeImages), Max(ErrImages, ConfImages)),
              OverlapImages)
Shots == 1..Max(Max(Max(QueueShots, PipeShots), Max(ErrShots, ConfShots)),
                OverlapShots)
Runs == 1..Max(Max(QueueRuns, PipeRuns), Max(ErrRuns, ConfRuns))
NoPath == 0
NoRun == 0

Providers == {"openai", "gemini", "anthropic"}

\* config.apiKey: absent, one the constructor of the SDK client throws on,
\* or one it accepts
KeyStates == {"none", "bad", "good"}

VARIABLES
  lim,                   \* the bounds of the specification being explored
  screenshotQueue,       \* ScreenshotHelper.screenshotQueue
  extraScreenshotQueue,  \* ScreenshotHelper.extraScreenshotQueue
  view,                  \* ScreenshotHelper.view / deps.getView()
  disk,                  \* image files that exist on disk
  nextId,                \* number of the next uuid
  dirOf,                 \* dirOf[i]: the directory path i was built in
  faults,                \* I/O failures injected so far
  shot,                  \* takeScreenshot invocations
  del,                   \* the deleteScreenshot invocation
  delCalls,              \* deleteScreenshot calls made so far
  pendingUnlink,         \* fs.unlink(path, cb) calls of a clear, not yet done
  unlinkErrors,          \* paths whose deletion error a clear has logged
  clears,                \* direct calls of clearQueues made so far
  runs,                  \* processScreenshots invocations that created a run
  nextRun,               \* number of the next run
  currentProcessingAbortController,
  currentExtraProcessingAbortController,
  problemInfo,           \* deps.getProblemInfo(): the run that set it, or NoRun
  hasDebugged,           \* deps.setHasDebugged
  apiProvider,           \* config.apiProvider
  apiKey,                \* config.apiKey
  openaiClient,          \* ProcessingHelper.openaiClient is not null
  geminiApiKey,          \* ProcessingHelper.geminiApiKey is not null
  anthropicClient,       \* ProcessingHelper.anthropicClient is not null
  events,                \* events[r]: what run r sent to the renderer, in order
  signals,               \* events sent outside any run
  superseded,            \* runs in flight when a later run of their role began
  cancelled,             \* runs in flight when cancelOngoingRequests ran
  renderer,              \* SubscribedApp: the view shown, and the cached solution
  responseContent,       \* the text of a provider's answer to the analyze call
  formattedResponse      \* what generateAnalysisHelper returns for it

queueVars == <<screenshotQueue, extraScreenshotQueue>>
diskVars == <<disk, faults, pendingUnlink, unlinkErrors, clears>>
shotVars == <<nextId, dirOf, shot>>
delVars == <<del, delCalls>>
runVars == <<runs, nextRun, currentProcessingAbortController,
             currentExtraProcessingAbortController, events, superseded>>
configVars ==
  <<apiProvider, apiKey, openaiClient, geminiApiKey, anthropicClient>>
parseVars == <<responseContent, formattedResponse>>
staticVars == <<lim, parseVars>>
mainVars == <<staticVars, problemInfo, hasDebugged, configVars, signals, cancelled>>
appVars == <<mainVars, renderer>>
vars == <<lim, screenshotQueue, extraScreenshotQueue, view, disk, nextId,
          dirOf, faults, shot, del, delCalls, pendingUnlink, unlinkErrors,
          clears, runs, nextRun, currentProcessingAbortController,
          currentExtraProcessingAbortController, problemInfo, hasDebugged,
          apiProvider, apiKey, openaiClient, geminiApiKey, anthropicClient,
          events, signals, superseded, cancelled, renderer,
          responseContent, formattedResponse>>

----------------------------------------------------------------------------
\* Helpers on sequences and files

Range(q) == {q[i] : i \in 1..Len(q)}

\* Array.prototype.filter((filePath) => filePath !== path)
FilterOut(q, p) == SelectSeq(q, LAMBDA x : x # p)

\* screenshotQueue.filter((path) => fs.existsSync(path))
Existing(q) == SelectSeq(q, LAMBDA x : x \in disk)

\* The outcomes of unlinking p: it fails when the file is missing, and the
\* file system may refuse a deletion of a file that exists.
UnlinkOutcomes(p) ==
  IF p \notin disk THEN {FALSE}
  ELSE IF faults < lim.faults THEN {TRUE, FALSE} ELSE {TRUE}

AfterUnlink(p, ok) == IF ok THEN disk \ {p} ELSE disk

Fault(p, ok) == IF ~ok /\ p \in disk THEN faults + 1 ELSE faults

----------------------------------------------------------------------------
\* ScreenshotHelper.takeScreenshot

\* attempted: the capture methods the invocation has called; hidden: the
\* invocation has called hideMainWindow and not yet showMainWindow; epoch:
\* the number of queue clears that had been made when the invocation began; ret: how the
\* last invocation ended, "none" before the first has
IdleShot == [pc |-> "idle", target |-> "none", path |-> NoPath,
             removed |-> NoPath, attempted |-> {}, hidden |-> FALSE,
             epoch |-> 0, ret |-> "none"]

\* captureScreenshot: screenshot({ format: 'png' }), the buffer is returned
\* and an error is logged and rethrown
CaptureMethods == {"library"}

\* hideMainWindow() and the delay before the capture
HideMainWindow(rec) == [rec EXCEPT !.hidden = TRUE]

ShowMainWindowSkipped(rec) == rec

\* showMainWindow()
ShowMainWindow(rec) == [rec EXCEPT !.hidden = FALSE]

\* the finally block of takeScreenshot, after which the call returns the
\* path or rethrows
Finally(rec) == ShowMainWindow([IdleShot EXCEPT !.hidden = rec.hidden])

RethrowSwallowed(rec) == [Finally(rec) EXCEPT !.ret = "path"]

\* catch (error) { ...; throw error } and the finally block
Rethrow(rec) == [Finally(rec) EXCEPT !.ret = "error"]

\* return screenshotPath, after the finally block
Return(rec) == [Finally(rec) EXCEPT !.ret = "path"]

TargetOfSwapped(v) == IF v = "queue" THEN "extra" ELSE "main"

\* if (this.view === "queue") ... else ...
TargetOf(v) == IF v = "queue" THEN "main" ELSE "extra"

\* path.join(this.screenshotDir, ...) or path.join(this.extraScreenshotDir, ...)
DirOf(v) == IF v = "queue" THEN "screenshots" ELSE "extra_screenshots"

OverCapacityOffByOne(q) == Len(q) > MAX_SCREENSHOTS + 1

\* if (queue.length > this.MAX_SCREENSHOTS)
OverCapacity(q) == Len(q) > MAX_SCREENSHOTS

EvictNewest(q) == [queue |-> SubSeq(q, 1, Len(q) - 1), removed |-> q[Len(q)]]

\* const removedPath = queue.shift()
Evict(q) == [queue |-> Tail(q), removed |-> Head(q)]

EnqueueRejectsWhenFull(q, p) ==
  IF Len(q) >= MAX_SCREENSHOTS THEN [queue |-> q, removed |-> Head(q)]
  ELSE [queue |-> Append(q, p), removed |-> NoPath]

\* queue.push(path) followed by the eviction test
Enqueue(q, p) ==
  LET pushed == Append(q, p)
  IN  IF OverCapacity(pushed) THEN Evict(pushed)
      ELSE [queue |-> pushed, removed |-> NoPath]

\* hideMainWindow(), the 100 ms delay, and the call of captureScreenshot
TakeScreenshot(t) ==
  /\ t <= lim.shots
  /\ shot[t].pc = "idle"
  /\ nextId + Cardinality({u \in Shots : shot[u].pc = "capture"}) <= lim.images
  /\ shot' = [shot EXCEPT ![t] =
       [HideMainWindow(IdleShot) EXCEPT !.pc = "capture",
                                        !.attempted = CaptureMethods,
                                        !.epoch = clears]]
  /\ UNCHANGED <<queueVars, view, diskVars, nextId, dirOf, delVars, runVars, appVars>>

\* captureScreenshot resolved: the view selects the directory and the queue,
\* the path is built and writeFile is called
CaptureDone(t) ==
  /\ shot[t].pc = "capture"
  /\ shot' = [shot EXCEPT ![t] =
       [shot[t] EXCEPT !.pc = "write", !.target = TargetOf(view),
                       !.path = nextId]]
  /\ dirOf' = [dirOf EXCEPT ![nextId] = DirOf(view)]
  /\ nextId' = nextId + 1
  /\ UNCHANGED <<queueVars, view, diskVars, delVars, runVars, appVars>>

\* captureScreenshot rejected: the error is rethrown, the window is shown
CaptureFailed(t) ==
  /\ shot[t].pc = "capture"
  /\ faults < lim.faults
  /\ faults' = faults + 1
  /\ shot' = [shot EXCEPT ![t] = Rethrow(shot[t])]
  /\ UNCHANGED <<queueVars, view, disk, pendingUnlink, unlinkErrors, clears, nextId,
                 dirOf, delVars, runVars, appVars>>

\* writeFile resolved: push, and shift when the queue is over capacity; the
\* unlink of the removed path is then awaited
WriteDone(t) ==
  /\ shot[t].pc = "write"
  /\ LET p == shot[t].path
         q == IF shot[t].target = "main" THEN screenshotQueue
              ELSE extraScreenshotQueue
         e == Enqueue(q, p)
     IN  /\ disk' = disk \cup {p}
         /\ IF shot[t].target = "main"
            THEN /\ screenshotQueue' = e.queue
                 /\ UNCHANGED extraScreenshotQueue
            ELSE /\ extraScreenshotQueue' = e.queue
                 /\ UNCHANGED screenshotQueue
         /\ shot' = [shot EXCEPT ![t] =
              IF e.removed = NoPath THEN Return(shot[t])
              ELSE [shot[t] EXCEPT !.pc = "unlink", !.removed = e.removed]]
  /\ UNCHANGED <<view, faults, pendingUnlink, unlinkErrors, clears, nextId, dirOf,
                 delVars, runVars, appVars>>

\* writeFile rejected: nothing is pushed, the error is rethrown
WriteFailed(t) ==
  /\ shot[t].pc = "write"
  /\ faults < lim.faults
  /\ faults' = faults + 1
  /\ shot' = [shot EXCEPT ![t] = Rethrow(shot[t])]
  /\ UNCHANGED <<queueVars, view, disk, pendingUnlink, unlinkErrors, clears, nextId,
                 dirOf, delVars, runVars, appVars>>

\* await fs.promises.unlink(removedPath) settled; a rejection is logged
EvictUnlinkDone(t) ==
  /\ shot[t].pc = "unlink"
  /\ \E ok \in UnlinkOutcomes(shot[t].removed) :
       /\ disk' = AfterUnlink(shot[t].removed, ok)
       /\ faults' = Fault(shot[t].removed, ok)
  /\ shot' = [shot EXCEPT ![t] = Return(shot[t])]
  /\ UNCHANGED <<queueVars, view, pendingUnlink, unlinkErrors, clears, nextId, dirOf,
                 delVars, runVars, appVars>>

----------------------------------------------------------------------------
\* ScreenshotHelper.deleteScreenshot

\* member: whether the path was in the addressed queue when the call was made
IdleDel == [pc |-> "idle", path |-> NoPath, member |-> FALSE, ret |-> "none"]

\* the queue the filter of deleteScreenshot is applied to
Addressed(v) == IF v = "queue" THEN "main" ELSE "extra"

\* the call, with a path an earlier takeScreenshot has built and is done
\* with: fs.promises.unlink(path) is issued and awaited
DeleteScreenshot(p) ==
  /\ p < nextId
  /\ \A t \in Shots : shot[t].path # p
  /\ del.pc = "idle"
  /\ delCalls < lim.deleteCalls
  /\ delCalls' = delCalls + 1
  /\ del' = [pc |-> "unlink", path |-> p, ret |-> "none",
             member |-> p \in Range(IF Addressed(view) = "main"
                                    THEN screenshotQueue
                                    ELSE extraScreenshotQueue)]
  /\ UNCHANGED <<queueVars, view, diskVars, shotVars, runVars, appVars>>

\* the unlink settled: on success the queue of the current view is filtered
\* and {success: true} returned, on failure {success: false}
DeleteDone ==
  /\ del.pc = "unlink"
  /\ \E ok \in UnlinkOutcomes(del.path) :
       LET p == del.path
       IN  /\ disk' = AfterUnlink(p, ok)
           /\ faults' = Fault(p, ok)
           /\ IF ok /\ Addressed(view) = "main"
              THEN screenshotQueue' = FilterOut(screenshotQueue, p)
              ELSE UNCHANGED screenshotQueue
           /\ IF ok /\ Addressed(view) = "extra"
              THEN extraScreenshotQueue' = FilterOut(extraScreenshotQueue, p)
              ELSE UNCHANGED extraScreenshotQueue
           /\ del' = [IdleDel EXCEPT
                       !.ret = IF ok THEN "success" ELSE "failure"]
  /\ UNCHANGED <<view, pendingUnlink, unlinkErrors, clears, shotVars, delCalls,
                 runVars, appVars>>

----------------------------------------------------------------------------
\* ScreenshotHelper.clearQueues, clearExtraScreenshotQueue

ClearedQueueKeepsUndeleted(q) == SelectSeq(q, LAMBDA x : x \in disk)

\* this.screenshotQueue = [] after the forEach that calls fs.unlink
ClearedQueue(q) == << >>

\* the fs.unlink calls the forEach of a clear issues for q, in order
Issued(q) == q

\* the two forEach loops and assignments of clearQueues
ClearQueuesBody ==
  /\ pendingUnlink' = pendingUnlink \o Issued(screenshotQueue)
                                     \o Issued(extraScreenshotQueue)
  /\ screenshotQueue' = ClearedQueue(screenshotQueue)
  /\ extraScreenshotQueue' = ClearedQueue(extraScreenshotQueue)

ClearExtraSkipped == UNCHANGED <<pendingUnlink, extraScreenshotQueue>>

\* the forEach loop and assignment of clearExtraScreenshotQueue
ClearExtraBody ==
  /\ pendingUnlink' = pendingUnlink \o Issued(extraScreenshotQueue)
  /\ extraScreenshotQueue' = ClearedQueue(extraScreenshotQueue)

ClearQueues ==
  /\ clears < lim.clears
  /\ clears' = clears + 1
  /\ ClearQueuesBody
  /\ UNCHANGED <<view, disk, faults, unlinkErrors, shotVars, delVars, runVars,
                 appVars>>

ClearExtraScreenshotQueue ==
  /\ clears < lim.clears
  /\ clears' = clears + 1
  /\ ClearExtraBody
  /\ UNCHANGED <<screenshotQueue, view, disk, faults, unlinkErrors, shotVars,
                 delVars, runVars, appVars>>

\* the callback of one fs.unlink of a clear: (err) => { if (err) console.error }.
\* The deletions of different paths commute; their callbacks are delivered in
\* the order the unlinks were issued.
UnlinkCallback(p) ==
  /\ pendingUnlink # << >> /\ p = Head(pendingUnlink)
  /\ pendingUnlink' = Tail(pendingUnlink)
  /\ \E ok \in UnlinkOutcomes(p) :
       /\ disk' = AfterUnlink(p, ok)
       /\ faults' = Fault(p, ok)
       /\ unlinkErrors' = IF ok THEN unlinkErrors ELSE unlinkErrors \cup {p}
  /\ UNCHANGED <<queueVars, view, clears, shotVars, delVars, runVars, appVars>>


----------------------------------------------------------------------------
\* ProcessingHelper: the runs of processScreenshots

\* kind: how the last provider call of the run settled; error: result.error
NoRunRec == [pc |-> "none", role |-> "none", shots |-> {},
             configured |-> "none", provider |-> "none",
             aborted |-> FALSE, signalled |-> FALSE, result |-> "none",
             kind |-> "none", error |-> "none"]

InFlight(r) == runs[r].pc \in {"load", "extract", "analyze", "debug"}

NoClients == [openai |-> FALSE, gemini |-> FALSE, anthropic |-> FALSE]

\* the "openai" branch of initializeAIClient: with a key the client is
\* constructed and the other two fields are set to null; a constructor that
\* throws ends in the catch block, which sets the three fields to null
OpenAIBranch(cur, key) ==
  IF key = "good" THEN [NoClients EXCEPT !.openai = TRUE] ELSE NoClients

GeminiBranchKeepsOthers(cur, key) == [cur EXCEPT !.gemini = key # "none"]

\* the "gemini" branch: the other two fields are set to null, and the key,
\* if there is one, is stored as it is
GeminiBranch(cur, key) ==
  IF key # "none" THEN [NoClients EXCEPT !.gemini = TRUE] ELSE NoClients

\* the "anthropic" branch
AnthropicBranch(cur, key) ==
  IF key = "good" THEN [NoClients EXCEPT !.anthropic = TRUE] ELSE NoClients

\* the three fields after initializeAIClient has run with the configuration
ClientsAfter(cur, provider, key) ==
  CASE provider = "openai" -> OpenAIBranch(cur, key)
    [] provider = "gemini" -> GeminiBranch(cur, key)
    [] provider = "anthropic" -> AnthropicBranch(cur, key)
    [] OTHER -> cur

\* initializeAIClient, called by the listener of "config-updated" once the
\* configuration has been saved
InitializeAIClient ==
  LET c == ClientsAfter([openai |-> openaiClient, gemini |-> geminiApiKey,
                         anthropic |-> anthropicClient],
                        apiProvider', apiKey')
  IN /\ openaiClient' = c.openai
     /\ geminiApiKey' = c.gemini
     /\ anthropicClient' = c.anthropic

\* the client field the branch of a provider tests: if (!this.openaiClient),
\* if (!this.geminiApiKey), if (!this.anthropicClient)
HasClient(provider) ==
  CASE provider = "openai" -> openaiClient
    [] provider = "gemini" -> geminiApiKey
    [] OTHER -> anthropicClient

\* the error string a helper returns when the client of the provider is null
NoKeyMessage(provider, stage) ==
  CASE provider = "openai" /\ stage = "extract" ->
         "Chave da API OpenAI nao configurada ou invalida"
    [] provider = "openai" -> "Chave da API OpenAI nao configurada"
    [] provider = "gemini" -> "Chave da API Gemini nao configurada"
    [] OTHER -> "Chave da API Anthropic nao configurada"

\* the ways a provider call can fail: HTTP 429 (rate limit), 401 (rejected
\* key), 413 (payload too large), 500 (server error)
FailureKinds == <<"e429", "e401", "e413", "e500">>

\* the outcomes of a provider call that is not aborted
Outcomes ==
  {"ok"} \cup {FailureKinds[i] : i \in 1..Min(lim.kinds, Len(FailureKinds))}

\* whether the call the provider's branch issues is given the run's signal:
\* axios.default.post(url, body, { signal }) against
\* openaiClient.chat.completions.create({...}) and
\* anthropicClient.messages.create({...})
CarriesSignal(provider) == provider = "gemini"

\* the error string of the Gemini catch block of a stage; every rejection of
\* the axios call, an abort included, ends there
GeminiMessage(stage) ==
  CASE stage = "extract" -> "Falha ao processar com a API Gemini"
    [] stage = "analyze" -> "Falha ao gerar analise com a API Gemini"
    [] OTHER -> "Falha ao processar solicitacao de analise adicional com a API Gemini"

\* the error string of the Anthropic catch block of a stage
AnthropicMessage(stage, kind) ==
  CASE kind = "e429" -> "Limite de taxa da API Claude excedido"
    [] kind = "e413" /\ stage = "analyze" ->
         "O conteudo contem muita informacao para o Claude processar. Mude para OpenAI ou Gemini"
    [] kind = "e413" ->
         "Suas capturas de tela contem muita informacao para o Claude processar. Mude para OpenAI ou Gemini"
    [] stage = "extract" -> "Falha ao processar com a API Anthropic"
    [] stage = "analyze" -> "Falha ao gerar analise com a API Anthropic"
    [] OTHER -> "Falha ao processar solicitacao de analise adicional com a API Anthropic"

\* the OpenAI branches have no catch block of their own: the error of the
\* SDK carries status, not response.status, and reaches the outer catch,
\* which returns error.message, the text of the vendor
OpenAIMessage(kind) ==
  CASE kind = "e429" -> "429 vendor text: rate limit"
    [] kind = "e401" -> "401 vendor text: incorrect key"
    [] kind = "e413" -> "413 vendor text: request too large"
    [] OTHER -> "500 vendor text: server error"

\* the error string a failed call of the provider ends as
ErrorMessage(provider, stage, kind) ==
  CASE provider = "gemini" -> GeminiMessage(stage)
    [] provider = "anthropic" -> AnthropicMessage(stage, kind)
    [] OTHER -> OpenAIMessage(kind)

\* String.prototype.includes on the error strings above
Includes(msg, word) ==
  CASE word = "Gemini" ->
         msg \in {GeminiMessage("extract"), GeminiMessage("analyze"),
                  GeminiMessage("debug"), NoKeyMessage("gemini", "extract"),
                  AnthropicMessage("extract", "e413"),
                  AnthropicMessage("analyze", "e413")}
    [] word = "OpenAI" ->
         msg \in {AnthropicMessage("extract", "e413"),
                  AnthropicMessage("analyze", "e413"),
                  NoKeyMessage("openai", "extract"),
                  NoKeyMessage("openai", "analyze")}
    [] OTHER -> FALSE

\* result.error?.includes("API Key") || includes("OpenAI") || includes("Gemini")
MentionsKey(msg) ==
  Includes(msg, "API Key") \/ Includes(msg, "OpenAI") \/ Includes(msg, "Gemini")

FailureEvent(msg) ==
  IF MentionsKey(msg) THEN "API_KEY_INVALID" ELSE "INITIAL_SOLUTION_ERROR"

\* the listeners of the renderer that change what it shows: onSolutionStart
\* of SubscribedApp, onSolutionError of Queue and of Solutions (the component
\* of the view shown is the one mounted), onSolutionSuccess of Solutions,
\* onResetView of SubscribedApp; the other listeners show a toast or a dialog
OnEvent(rd, ev) ==
  CASE ev = "INITIAL_START" -> [rd EXCEPT !.view = "solutions"]
    [] ev = "INITIAL_SOLUTION_ERROR" ->
         IF rd.view = "solutions" /\ rd.solution THEN rd
         ELSE [rd EXCEPT !.view = "queue"]
    [] ev = "SOLUTION_SUCCESS" ->
         IF rd.view = "solutions" THEN [rd EXCEPT !.solution = TRUE] ELSE rd
    [] ev = "reset-view" -> [view |-> "queue", solution |-> FALSE]
    [] OTHER -> rd

RECURSIVE DeliverAll(_, _)
\* the renderer after the events were delivered in the order they were sent
DeliverAll(rd, evs) ==
  IF evs = << >> THEN rd ELSE DeliverAll(OnEvent(rd, Head(evs)), Tail(evs))

\* mainWindow.webContents.send, for each event of evs in order
Send(r, evs) ==
  /\ events' = [events EXCEPT ![r] = events[r] \o evs]
  /\ renderer' = DeliverAll(renderer, evs)

\* this.currentProcessingAbortController = null in the finally block
ReleaseMain == currentProcessingAbortController' = NoRun

\* this.currentExtraProcessingAbortController = null in the finally block
ReleaseExtra == currentExtraProcessingAbortController' = NoRun

Finish(r, res, kind, msg) ==
  runs' = [runs EXCEPT ![r] = [runs[r] EXCEPT !.pc = "done", !.shots = {},
                                              !.signalled = FALSE,
                                              !.result = res,
                                              !.kind = kind, !.error = msg]]

NothingToProcessNever(q) == FALSE

\* if (queue.length === 0) ... if (existingScreenshots.length === 0)
NothingToProcess(q) == Len(Existing(q)) = 0

NoClientEventsWithStart == <<"INITIAL_START", "API_KEY_INVALID">>

\* what processScreenshots sends before it returns for want of a client
NoClientEvents == <<"API_KEY_INVALID">>

\* processScreenshots called while the client field of the configured
\* provider is null: initializeAIClient is called again, reads the same
\* configuration and leaves the field null; API_KEY_INVALID is sent
ProcessNoClient ==
  /\ ~HasClient(apiProvider)
  /\ signals' = signals \cup Range(NoClientEvents)
  /\ renderer' = DeliverAll(renderer, NoClientEvents)
  /\ UNCHANGED <<queueVars, view, diskVars, shotVars, delVars, runVars, staticVars,
                 problemInfo, hasDebugged, configVars, cancelled>>

\* processScreenshots called in the "queue" view with nothing to process
ProcessNoScreenshots ==
  /\ HasClient(apiProvider)
  /\ view = "queue"
  /\ NothingToProcess(screenshotQueue)
  /\ signals' = signals \cup {"INITIAL_START", "NO_SCREENSHOTS"}
  /\ renderer' = DeliverAll(renderer, <<"INITIAL_START", "NO_SCREENSHOTS">>)
  /\ UNCHANGED <<queueVars, view, diskVars, shotVars, delVars, runVars, staticVars,
                 problemInfo, hasDebugged, configVars, cancelled>>

\* processScreenshots called in another view with nothing to process
ProcessNoExtraScreenshots ==
  /\ HasClient(apiProvider)
  /\ view # "queue"
  /\ NothingToProcess(extraScreenshotQueue)
  /\ signals' = signals \cup {"NO_SCREENSHOTS"}
  /\ renderer' = DeliverAll(renderer, <<"NO_SCREENSHOTS">>)
  /\ UNCHANGED <<queueVars, view, diskVars, shotVars, delVars, runVars, staticVars,
                 problemInfo, hasDebugged, configVars, cancelled>>

\* processScreenshots called in the "queue" view: INITIAL_START, a new
\* AbortController, and the reads of the existing screenshots are awaited
ProcessStartMain ==
  /\ HasClient(apiProvider)
  /\ view = "queue"
  /\ ~NothingToProcess(screenshotQueue)
  /\ nextRun <= lim.runs
  /\ runs' = [runs EXCEPT ![nextRun] =
       [NoRunRec EXCEPT !.pc = "load", !.role = "main",
                        !.configured = apiProvider,
                        !.shots = Range(Existing(screenshotQueue))]]
  /\ currentProcessingAbortController' = nextRun
  /\ Send(nextRun, <<"INITIAL_START">>)
  /\ superseded' = superseded \cup
       {r \in Runs : InFlight(r) /\ runs[r].role = "main"}
  /\ nextRun' = nextRun + 1
  /\ UNCHANGED <<queueVars, view, diskVars, shotVars, delVars,
                 currentExtraProcessingAbortController, mainVars>>

DebugPathsExtraOnly == Range(Existing(extraScreenshotQueue))

\* allPaths = [...getScreenshotQueue(), ...existingExtraScreenshots]
DebugPaths ==
  Range(screenshotQueue) \cup Range(Existing(extraScreenshotQueue))

\* processScreenshots called in another view: DEBUG_START, a new
\* AbortController, and the reads of all screenshots are awaited
ProcessStartExtra ==
  /\ HasClient(apiProvider)
  /\ view # "queue"
  /\ ~NothingToProcess(extraScreenshotQueue)
  /\ nextRun <= lim.runs
  /\ runs' = [runs EXCEPT ![nextRun] =
       [NoRunRec EXCEPT !.pc = "load", !.role = "extra",
                        !.configured = apiProvider,
                        !.shots = DebugPaths]]
  /\ currentExtraProcessingAbortController' = nextRun
  /\ Send(nextRun, <<"DEBUG_START">>)
  /\ superseded' = superseded \cup
       {r \in Runs : InFlight(r) /\ runs[r].role = "extra"}
  /\ nextRun' = nextRun + 1
  /\ UNCHANGED <<queueVars, view, diskVars, shotVars, delVars,
                 currentProcessingAbortController, mainVars>>

\* the error string a call rejected by its aborted signal ends as: only the
\* axios calls of the Gemini branches are given the signal
AbortMessage(provider, stage) ==
  IF provider = "gemini" THEN GeminiMessage(stage)
  ELSE "O processamento foi cancelado pelo usuario"

\* how a provider call of run r can settle: a call that was given the signal
\* of an aborted controller rejects, any other call completes on its own
Settlements(r) ==
  IF runs[r].signalled /\ runs[r].aborted THEN {"aborted"} ELSE Outcomes

MessageOf(r, o) ==
  IF o = "aborted" THEN AbortMessage(runs[r].provider, runs[r].pc)
  ELSE ErrorMessage(runs[r].provider, runs[r].pc, o)

\* validScreenshots = screenshots.filter(Boolean): the screenshots of run r
\* that could be read; one that is missing or unreadable is left out
Readable(r) == runs[r].shots \cap disk

\* the provider call a helper issues for the screenshots sent:
\* the timeout of one request in ms, 0 if there is none: the OpenAI and the
\* Anthropic client are constructed with timeout: 60000 (and maxRetries: 2),
\* the axios.post of a Gemini request is given { signal } and nothing else
RequestTimeout(provider) ==
  IF provider \in {"openai", "anthropic"} THEN 60000 ELSE 0

\* config.apiProvider is read by the helper
IssueCall(r, stage, sent) ==
  runs' = [runs EXCEPT ![r] = [runs[r] EXCEPT !.pc = stage,
                                              !.shots = sent,
                                              !.provider = apiProvider,
                                              !.signalled = CarriesSignal(apiProvider)]]

\* if (!result.success) of processScreenshots, and its finally block
FailMain(r, kind, msg) ==
  /\ Send(r, <<FailureEvent(msg)>>)
  /\ view' = "queue"
  /\ ReleaseMain
  /\ Finish(r, "failed", kind, msg)

\* the screenshots of a "queue" run were read: processScreenshotsHelper
\* issues the extract call
LoadDoneMain(r) ==
  /\ runs[r].pc = "load" /\ runs[r].role = "main"
  /\ Readable(r) # {}
  /\ HasClient(apiProvider)
  /\ IssueCall(r, "extract", Readable(r))
  /\ UNCHANGED <<queueVars, view, diskVars, shotVars, delVars, nextRun,
                 currentProcessingAbortController,
                 currentExtraProcessingAbortController, events, superseded,
                 appVars>>

\* no screenshot of a "queue" run could be read: the catch block of
\* processScreenshots sends the error twice and resets the view
LoadFailedMain(r) ==
  /\ runs[r].pc = "load" /\ runs[r].role = "main"
  /\ Readable(r) = {}
  /\ Send(r, <<"INITIAL_SOLUTION_ERROR", "INITIAL_SOLUTION_ERROR">>)
  /\ view' = "queue"
  /\ ReleaseMain
  /\ Finish(r, "failed", "noload", "Failed to load screenshot data")
  /\ UNCHANGED <<queueVars, diskVars, shotVars, delVars, nextRun,
                 currentExtraProcessingAbortController, superseded, mainVars>>

\* the screenshots of a "queue" run were read, and the client field of the
\* provider processScreenshotsHelper reads from the configuration is null
ExtractNoClient(r) ==
  /\ runs[r].pc = "load" /\ runs[r].role = "main"
  /\ Readable(r) # {}
  /\ ~HasClient(apiProvider)
  /\ FailMain(r, "nokey", NoKeyMessage(apiProvider, "extract"))
  /\ UNCHANGED <<queueVars, diskVars, shotVars, delVars, nextRun,
                 currentExtraProcessingAbortController, superseded, mainVars>>

SetProblemInfoSkipped(r) == UNCHANGED problemInfo

\* this.deps.setProblemInfo(contentInfo)
SetProblemInfo(r) == problemInfo' = r

\* the extract call settled
ExtractDone(r) ==
  /\ runs[r].pc = "extract"
  /\ \E o \in Settlements(r) :
       IF o = "ok"
       THEN /\ SetProblemInfo(r)
            /\ IF HasClient(apiProvider)
               THEN /\ Send(r, <<"PROBLEM_EXTRACTED">>)
                    /\ IssueCall(r, "analyze", runs[r].shots)
                    /\ UNCHANGED <<view, currentProcessingAbortController>>
               ELSE /\ Send(r, <<"PROBLEM_EXTRACTED",
                                 FailureEvent(NoKeyMessage(apiProvider,
                                                           "analyze"))>>)
                    /\ view' = "queue"
                    /\ ReleaseMain
                    /\ Finish(r, "failed", "nokey",
                              NoKeyMessage(apiProvider, "analyze"))
       ELSE /\ FailMain(r, o, MessageOf(r, o))
            /\ UNCHANGED problemInfo
  /\ UNCHANGED <<queueVars, diskVars, shotVars, delVars, nextRun,
                 currentExtraProcessingAbortController, superseded, staticVars,
                 hasDebugged, configVars, signals, cancelled>>

\* the analyze call settled
AnalyzeDone(r) ==
  /\ runs[r].pc = "analyze"
  /\ \E o \in Settlements(r) :
       IF o = "ok"
       THEN /\ ClearExtraBody
            /\ Send(r, <<"SOLUTION_SUCCESS", "SOLUTION_SUCCESS">>)
            /\ view' = "solutions"
            /\ ReleaseMain
            /\ Finish(r, "success", "ok", "none")
       ELSE /\ FailMain(r, o, MessageOf(r, o))
            /\ UNCHANGED <<pendingUnlink, extraScreenshotQueue>>
  /\ UNCHANGED <<screenshotQueue, disk, faults, unlinkErrors, clears, shotVars,
                 delVars, nextRun, currentExtraProcessingAbortController,
                 superseded, mainVars>>

\* the finally block and result handling of the debug branch
EndExtra(r, ev, res, kind, msg) ==
  /\ Send(r, <<ev>>)
  /\ ReleaseExtra
  /\ Finish(r, res, kind, msg)

HasProblemInfoAlways == TRUE

\* if (!contentInfo) throw new Error(...) of processExtraScreenshotsHelper
HasProblemInfo == problemInfo # NoRun

\* the screenshots of a debug run were read: processExtraScreenshotsHelper
\* issues the debug call
LoadDoneExtra(r) ==
  /\ runs[r].pc = "load" /\ runs[r].role = "extra"
  /\ Readable(r) # {}
  /\ HasProblemInfo
  /\ HasClient(apiProvider)
  /\ IssueCall(r, "debug", Readable(r))
  /\ UNCHANGED <<queueVars, view, diskVars, shotVars, delVars, nextRun,
                 currentProcessingAbortController,
                 currentExtraProcessingAbortController, events, superseded,
                 appVars>>

\* no screenshot of a debug run could be read, or there is no problem info,
\* or the client field of the provider is null
LoadFailedExtra(r) ==
  /\ runs[r].pc = "load" /\ runs[r].role = "extra"
  /\ Readable(r) = {} \/ ~HasProblemInfo \/ ~HasClient(apiProvider)
  /\ IF Readable(r) = {}
     THEN EndExtra(r, "DEBUG_ERROR", "failed", "noload",
                   "Failed to load screenshot data for debugging")
     ELSE IF ~HasProblemInfo
     THEN EndExtra(r, "DEBUG_ERROR", "failed", "noinfo",
                   "Nenhuma informacao de conteudo disponivel")
     ELSE EndExtra(r, "DEBUG_ERROR", "failed", "nokey",
                   NoKeyMessage(apiProvider, "debug"))
  /\ UNCHANGED <<queueVars, view, diskVars, shotVars, delVars, nextRun,
                 currentProcessingAbortController, superseded, mainVars>>

\* the debug call settled
DebugDone(r) ==
  /\ runs[r].pc = "debug"
  /\ \E o \in Settlements(r) :
       IF o = "ok"
       THEN /\ hasDebugged' = TRUE
            /\ EndExtra(r, "DEBUG_SUCCESS", "success", "ok", "none")
       ELSE /\ EndExtra(r, "DEBUG_ERROR", "failed", o, MessageOf(r, o))
            /\ UNCHANGED hasDebugged
  /\ UNCHANGED <<queueVars, view, diskVars, shotVars, delVars, nextRun,
                 currentProcessingAbortController, superseded, staticVars,
                 problemInfo, configVars, signals, cancelled>>

----------------------------------------------------------------------------
\* ProcessingHelper.cancelOngoingRequests

Controllers ==
  {currentProcessingAbortController, currentExtraProcessingAbortController}
    \ {NoRun}

\* controller.abort() on each controller the two fields hold
Abort(r) == r \in Controllers

WasCancelledAlways == TRUE

\* wasCancelled: one of the two fields held a controller
WasCancelled == Controllers # {}

CancelBody ==
  /\ runs' = [r \in Runs |->
       IF Abort(r) THEN [runs[r] EXCEPT !.aborted = TRUE] ELSE runs[r]]
  /\ currentProcessingAbortController' = NoRun
  /\ currentExtraProcessingAbortController' = NoRun
  /\ hasDebugged' = FALSE
  /\ problemInfo' = NoRun
  /\ signals' = IF WasCancelled THEN signals \cup {"NO_SCREENSHOTS"}
                ELSE signals
  /\ cancelled' = cancelled \cup {r \in Runs : InFlight(r)}

\* what cancelOngoingRequests sends: NO_SCREENSHOTS if it aborted a controller
CancelSignals == IF WasCancelled THEN <<"NO_SCREENSHOTS">> ELSE << >>

CancelOngoingRequests ==
  /\ CancelBody
  /\ renderer' = DeliverAll(renderer, CancelSignals)
  /\ UNCHANGED <<queueVars, view, diskVars, shotVars, delVars, nextRun,
                 events, superseded, staticVars, configVars>>

\* the reset of the application: cancel, clear both queues, back to "queue"
Reset ==
  /\ clears < lim.clears
  /\ clears' = clears + 1
  /\ CancelBody
  /\ ClearQueuesBody
  /\ view' = "queue"
  /\ renderer' = DeliverAll(renderer, CancelSignals \o <<"reset-view">>)
  /\ UNCHANGED <<disk, faults, unlinkErrors, shotVars, delVars, nextRun,
                 events, superseded, staticVars, configVars>>

----------------------------------------------------------------------------
\* configHelper.updateConfig: the configuration is saved, "config-updated"
\* is emitted and its listener calls initializeAIClient

UpdateConfig ==
  /\ \E p \in Providers, k \in KeyStates :
       /\ <<p, k>> # <<apiProvider, apiKey>>
       /\ apiProvider' = p
       /\ apiKey' = k
  /\ InitializeAIClient
  /\ UNCHANGED <<queueVars, view, diskVars, shotVars, delVars, runVars, staticVars,
                 problemInfo, hasDebugged, signals, cancelled, renderer>>

----------------------------------------------------------------------------
\* The response parsing of generateAnalysisHelper.  The text of a response is
\* a sequence of tokens, one for each piece of text the regular expressions
\* tell apart; tokens are separated by blanks and "NL" is a line break.

Tokens ==
  {"TIME",      \* Complexidade de tempo:
   "SPACE",     \* Complexidade de espaco:
   "THOUGHTS",  \* Pensamentos: (or Insights:, Raciocinio:, Abordagem:, Analise:)
   "FENCE",     \* three backquotes
   "BIGO",      \* O(n log n)
   "PORQUE",    \* porque
   "DASH",      \* -
   "W",         \* words with none of the above in them
   "NL"}

Texts == UNION {[1..n -> Tokens] : n \in 0..MaxLen}

\* message.content of the answer: a string, or null
Responses ==
  {[present |-> FALSE, text |-> << >>]}
    \cup {[present |-> TRUE, text |-> t] : t \in Texts}

NoResponse == [present |-> FALSE, text |-> << >>]

\* the least element of a non-empty set of positions
First(S) == CHOOSE i \in S : \A j \in S : i <= j

RECURSIVE Trim(_)
\* String.prototype.trim
Trim(t) ==
  IF t = << >> THEN t
  ELSE IF Head(t) = "NL" THEN Trim(Tail(t))
  ELSE IF t[Len(t)] = "NL" THEN Trim(SubSeq(t, 1, Len(t) - 1))
  ELSE t

RECURSIVE SkipBlank(_, _)
\* \s* from position i: the first position that is not a line break
SkipBlank(t, i) ==
  IF i <= Len(t) /\ t[i] = "NL" THEN SkipBlank(t, i + 1) ELSE i

RECURSIVE LineEnd(_, _)
\* [^\n]+ or .* from position i: the last position of the line
LineEnd(t, i) ==
  IF i + 1 <= Len(t) /\ t[i + 1] # "NL" THEN LineEnd(t, i + 1) ELSE i

Positions(t, tok) == {i \in 1..Len(t) : t[i] = tok}

\* responseContent.match(/```(?:\w+)?\s*([\s\S]*?)```/), codeMatch[1].trim()
CodeOf(t) ==
  LET fences == Positions(t, "FENCE")
  IN  IF Cardinality(fences) < 2 THEN << >>
      ELSE LET a == First(fences)
               b == First(fences \ {a})
           IN  Trim(SubSeq(t, a + 1, b - 1))

\* thoughtsMatch[1]: from the first label to the first "Complexidade de
\* tempo:" after it, or to the end of the text
ThoughtsRegion(t) ==
  LET labels == Positions(t, "THOUGHTS")
  IN  IF labels = {} THEN << >>
      ELSE LET a == First(labels)
               ends == {i \in Positions(t, "TIME") : i > a}
               b == IF ends = {} THEN Len(t) ELSE First(ends) - 1
           IN  SubSeq(t, a + 1, b)

RECURSIVE BulletPoints(_, _)
\* match(/(?:^|\n)\s*(?:[-*]|\d+\.)\s*(.*)/g) from position i on, each match
\* with replace(/^\s*(?:[-*]|\d+\.)\s*/, "").trim() applied: a bullet is a
\* dash that is the first thing of its line, and what follows it up to the
\* end of the line, of the next line that is not empty if its own is
BulletPoints(r, i) ==
  IF i > Len(r) THEN << >>
  ELSE LET q == SkipBlank(r, i)
       IN  IF (i = 1 \/ r[i] = "NL") /\ q <= Len(r) /\ r[q] = "DASH"
           THEN LET c == SkipBlank(r, q + 1)
                    e == IF c > Len(r) THEN Len(r) ELSE LineEnd(r, c)
                    point == IF c > Len(r) THEN << >> ELSE SubSeq(r, c, e)
                IN  <<point>> \o BulletPoints(r, e + 1)
           ELSE BulletPoints(r, i + 1)

RECURSIVE Lines(_, _)
\* split("\n").map((line) => line.trim()).filter(Boolean)
Lines(r, i) ==
  LET c == SkipBlank(r, i)
  IN  IF c > Len(r) THEN << >>
      ELSE <<SubSeq(r, c, LineEnd(r, c))>> \o Lines(r, LineEnd(r, c) + 1)

\* the thoughts the response yields, before the default is applied
ThoughtsOf(t) ==
  LET r == ThoughtsRegion(t)
      bullets == BulletPoints(r, 1)
  IN  IF r = << >> THEN << >>
      ELSE IF bullets # << >> THEN SelectSeq(bullets, LAMBDA b : b # << >>)
      ELSE Lines(r, 1)

\* (?=\n\s*(?:Complexidade de espaco|$)) after the time complexity
BeforeSpaceLabel == {"SPACE"}

\* (?=\n\s*(?:[A-Z]|$)) with the i flag after the space complexity: a letter
BeforeLetter == Tokens \ {"DASH", "FENCE", "NL"}

\* the lookahead at the end e of a line: a line break, blank lines, and
\* then the end of the text or what Follows allows
Lookahead(t, e, Follows) ==
  /\ e + 1 <= Len(t) /\ t[e + 1] = "NL"
  /\ LET k == SkipBlank(t, e + 1) IN k > Len(t) \/ t[k] \in Follows

RECURSIVE CaptureEnd(_, _, _)
\* ([^\n]+(?:\n[^\n]+)*?) with the lookahead: the end of the fewest lines,
\* from the line that ends at e on, after which the lookahead holds; 0 if
\* there is none
CaptureEnd(t, e, Follows) ==
  IF Lookahead(t, e, Follows) THEN e
  ELSE IF e + 2 <= Len(t) /\ t[e + 1] = "NL" /\ t[e + 2] # "NL"
  THEN CaptureEnd(t, LineEnd(t, e + 2), Follows)
  ELSE 0

\* the capture of the pattern with the label at position a; << >> if the
\* pattern does not match there
CaptureAt(t, a, Follows) ==
  LET j == SkipBlank(t, a + 1)
      e == IF j > Len(t) THEN 0 ELSE CaptureEnd(t, LineEnd(t, j), Follows)
  IN  IF e = 0 THEN << >> ELSE SubSeq(t, j, e)

\* responseContent.match(pattern)[1].trim(): the capture at the first label
\* the pattern matches at; << >> if it matches nowhere
Capture(t, label, Follows) ==
  LET at == {a \in Positions(t, label) : CaptureAt(t, a, Follows) # << >>}
  IN  IF at = {} THEN << >> ELSE CaptureAt(t, First(at), Follows)

\* the text with its first notation removed, trimmed
Rest(c) ==
  LET n == First(Positions(c, "BIGO"))
  IN  Trim(SubSeq(c, 1, n - 1) \o SubSeq(c, n + 1, Len(c)))

\* if (!complexity.match(/O\([^)]+\)/i)) ... else if (!includes("-") &&
\* !includes("porque")) ...
Normalise(c) ==
  IF Positions(c, "BIGO") = {} THEN <<"O(n)", "DASH">> \o c
  ELSE IF Positions(c, "DASH") = {} /\ Positions(c, "PORQUE") = {}
  THEN <<"BIGO", "DASH">> \o Rest(c)
  ELSE c

\* "N/A - Nao se aplica a este tipo de conteudo"
NotApplicable == <<"N/A">>

\* ["Analise baseada nas suas capturas de tela"]
DefaultThoughts == <<<<"Analise baseada nas suas capturas de tela">>>>

ComplexityOf(t, label, Follows) ==
  LET c == Capture(t, label, Follows)
  IN  IF c = << >> THEN NotApplicable ELSE Normalise(c)

NotParsed == [success |-> FALSE, error |-> "not parsed", code |-> << >>,
              thoughts |-> << >>, time_complexity |-> << >>,
              space_complexity |-> << >>]

\* responseContent.match on null throws a TypeError, which the catch block
\* of generateAnalysisHelper returns as the error of the stage
Parse(response) ==
  IF ~response.present
  THEN [NotParsed EXCEPT !.error = "TypeError"]
  ELSE [success |-> TRUE, error |-> "none",
        code |-> CodeOf(response.text),
        thoughts |-> IF ThoughtsOf(response.text) = << >> THEN DefaultThoughts
                     ELSE ThoughtsOf(response.text),
        time_complexity |->
          ComplexityOf(response.text, "TIME", BeforeSpaceLabel),
        space_complexity |->
          ComplexityOf(response.text, "SPACE", BeforeLetter)]

\* the parsing of a response that has arrived
ParseResponse ==
  /\ formattedResponse = NotParsed
  /\ formattedResponse' = Parse(responseContent)
  /\ UNCHANGED <<queueVars, view, diskVars, shotVars, delVars, runVars, lim,
                 responseContent, problemInfo, hasDebugged, configVars,
                 signals, cancelled, renderer>>

----------------------------------------------------------------------------
\* the fields after the constructor has called initializeAIClient
Constructed ==
  LET c == ClientsAfter(NoClients, apiProvider, apiKey)
  IN /\ openaiClient = c.openai
     /\ geminiApiKey = c.gemini
     /\ anthropicClient = c.anthropic

Init0 ==
  /\ screenshotQueue = << >>
  /\ extraScreenshotQueue = << >>
  /\ view = "queue"
  /\ disk = {}
  /\ nextId = 1
  /\ dirOf = [i \in Ids |-> "none"]
  /\ faults = 0
  /\ shot = [t \in Shots |-> IdleShot]
  /\ del = IdleDel
  /\ delCalls = 0
  /\ pendingUnlink = << >>
  /\ unlinkErrors = {}
  /\ clears = 0
  /\ runs = [r \in Runs |-> NoRunRec]
  /\ nextRun = 1
  /\ currentProcessingAbortController = NoRun
  /\ currentExtraProcessingAbortController = NoRun
  /\ problemInfo = NoRun
  /\ hasDebugged = FALSE
  /\ events = [r \in Runs |-> << >>]
  /\ signals = {}
  /\ superseded = {}
  /\ cancelled = {}
  /\ renderer = [view |-> "queue", solution |-> FALSE]

InitQueue ==
  /\ Init0
  /\ responseContent = NoResponse
  /\ formattedResponse = NotParsed
  /\ apiProvider = "openai"
  /\ apiKey = "good"
  /\ Constructed
  /\ lim = [images |-> QueueImages, shots |-> QueueShots,
            deleteCalls |-> QueueDeleteCalls, clears |-> QueueClears,
            faults |-> QueueFaults, runs |-> QueueRuns,
            kinds |-> QueueKinds]

InitPipe ==
  /\ Init0
  /\ responseContent = NoResponse
  /\ formattedResponse = NotParsed
  /\ apiProvider \in Providers
  /\ apiKey = "good"
  /\ Constructed
  /\ lim = [images |-> PipeImages, shots |-> PipeShots,
            deleteCalls |-> PipeDeleteCalls, clears |-> PipeClears,
            faults |-> PipeFaults, runs |-> PipeRuns,
            kinds |-> PipeKinds]

InitErr ==
  /\ Init0
  /\ responseContent = NoResponse
  /\ formattedResponse = NotParsed
  /\ apiProvider \in Providers
  /\ apiKey = "good"
  /\ Constructed
  /\ lim = [images |-> ErrImages, shots |-> ErrShots,
            deleteCalls |-> ErrDeleteCalls, clears |-> ErrClears,
            faults |-> ErrFaults, runs |-> ErrRuns,
            kinds |-> ErrKinds]

InitConfig ==
  /\ Init0
  /\ responseContent = NoResponse
  /\ formattedResponse = NotParsed
  /\ apiProvider \in Providers
  /\ apiKey \in KeyStates
  /\ Constructed
  /\ lim = [images |-> ConfImages, shots |-> ConfShots,
            deleteCalls |-> ConfDeleteCalls, clears |-> ConfClears,
            faults |-> ConfFaults, runs |-> ConfRuns,
            kinds |-> ConfKinds]

InitParse ==
  /\ Init0
  /\ responseContent \in Responses
  /\ formattedResponse = NotParsed
  /\ apiProvider = "openai"
  /\ apiKey = "good"
  /\ Constructed
  /\ lim = [images |-> 0, shots |-> 0, deleteCalls |-> 0, clears |-> 0,
            faults |-> 0, runs |-> 0, kinds |-> 0]

InitOverlap ==
  /\ Init0
  /\ responseContent = NoResponse
  /\ formattedResponse = NotParsed
  /\ apiProvider = "openai"
  /\ apiKey = "good"
  /\ Constructed
  /\ lim = [images |-> OverlapImages, shots |-> OverlapShots,
            deleteCalls |-> 0, clears |-> 0, faults |-> OverlapFaults,
            runs |-> 0, kinds |-> 0]

\* takeScreenshot up to the push, deleteScreenshot, the unlink callbacks
CaptureNext ==
  \/ \E t \in Shots : TakeScreenshot(t)
  \/ \E t \in Shots : CaptureDone(t)
  \/ \E t \in Shots : WriteDone(t)
  \/ \E p \in Ids : DeleteScreenshot(p)
  \/ DeleteDone
  \/ \E p \in Ids : UnlinkCallback(p)

\* an extract + analyze run, and the reset
SolveNext ==
  \/ ProcessStartMain
  \/ \E r \in Runs : LoadDoneMain(r)
  \/ \E r \in Runs : ExtractDone(r)
  \/ \E r \in Runs : AnalyzeDone(r)
  \/ Reset

NextQueue ==
  \/ CaptureNext
  \/ SolveNext
  \/ \E t \in Shots : CaptureFailed(t)
  \/ \E t \in Shots : WriteFailed(t)
  \/ \E t \in Shots : EvictUnlinkDone(t)

NextPipe ==
  \/ CaptureNext
  \/ SolveNext
  \/ ClearQueues
  \/ ClearExtraScreenshotQueue
  \/ ProcessNoScreenshots
  \/ ProcessNoExtraScreenshots
  \/ ProcessStartExtra
  \/ \E r \in Runs : LoadFailedMain(r)
  \/ \E r \in Runs : LoadDoneExtra(r)
  \/ \E r \in Runs : LoadFailedExtra(r)
  \/ \E r \in Runs : DebugDone(r)
  \/ CancelOngoingRequests

SpecQueue == InitQueue /\ [][NextQueue]_vars

SpecPipe == InitPipe /\ [][NextPipe]_vars

SpecErr == InitErr /\ [][NextPipe]_vars

NextConfig ==
  \/ CaptureNext
  \/ SolveNext
  \/ UpdateConfig
  \/ ProcessNoClient
  \/ \E r \in Runs : ExtractNoClient(r)

SpecConfig == InitConfig /\ [][NextConfig]_vars

SpecParse == InitParse /\ [][ParseResponse]_vars

\* takeScreenshot alone, called again before an earlier call has returned
NextOverlap ==
  \/ \E t \in Shots : TakeScreenshot(t)
  \/ \E t \in Shots : CaptureDone(t)
  \/ \E t \in Shots : CaptureFailed(t)
  \/ \E t \in Shots : WriteDone(t)
  \/ \E t \in Shots : WriteFailed(t)

SpecOverlap == InitOverlap /\ [][NextOverlap]_vars

----------------------------------------------------------------------------
\* Properties of the screenshot queues

QueueOf(target) ==
  IF target = "main" THEN screenshotQueue ELSE extraScreenshotQueue

OtherQueueOf(target) ==
  IF target = "main" THEN extraScreenshotQueue ELSE screenshotQueue

NoDuplicates(q) == \A i, j \in 1..Len(q) : q[i] = q[j] => i = j

EvictingStep(t) == shot[t].pc = "write" /\ shot'[t].pc = "unlink"

\* the step of takeScreenshot t in which the unlink of the evicted path settles
EvictionSettles(t) == shot[t].pc = "unlink" /\ shot'[t].pc = "idle"

\* what C2 says of the queues: the evicting push removes the head of the queue
\* it pushes onto (its oldest surviving entry), keeps the other entries in
\* order followed by the new one, and leaves the other queue alone
EvictsOldest(t) ==
  LET q == QueueOf(shot[t].target)
      q2 == IF shot[t].target = "main" THEN screenshotQueue'
            ELSE extraScreenshotQueue'
      o2 == IF shot[t].target = "main" THEN extraScreenshotQueue'
            ELSE screenshotQueue'
  IN  /\ Len(q) = MAX_SCREENSHOTS
      /\ q2 = Tail(q) \o <<shot[t].path>>
      /\ shot'[t].removed = Head(q)
      /\ o2 = OtherQueueOf(shot[t].target)

C3_Original ==
  \A t \in Shots : shot[t].pc = "unlink" => shot[t].removed \notin disk

\* C3 as amended: the push onto a full queue accepts the new item and removes
\* the oldest entry in one step, and the backing file of the evicted entry is
\* still on disk after that step: its deletion is only issued afterwards.
C3_PushThenEvictThenUnlink ==
  [][\A t \in Shots : EvictingStep(t) =>
       LET q == QueueOf(shot[t].target)
           q2 == IF shot[t].target = "main" THEN screenshotQueue'
                 ELSE extraScreenshotQueue'
       IN  /\ shot[t].path \in Range(q2)
           /\ Head(q) \notin Range(q2)
           /\ Len(q2) = MAX_SCREENSHOTS
           /\ Head(q) \in disk => Head(q) \in disk']_vars

\* the new item is a member, the evicted entry is not, and its file is still
\* on disk
C3_Witness ==
  \E t \in Shots :
    /\ shot[t].pc = "unlink"
    /\ shot[t].path \in Range(QueueOf(shot[t].target))
    /\ shot[t].removed \notin Range(QueueOf(shot[t].target))
    /\ shot[t].removed \in disk

\* C4: a deleteScreenshot of a path that is not a member of the queue it
\* addresses (the queue of the current view), neither when it is called nor
\* when its unlink settles, returns {success: false} and leaves both queues
\* as they were.
C4_DeleteOfNonMemberFails ==
  [][(/\ del.pc = "unlink" /\ del'.pc = "idle"
      /\ ~del.member
      /\ del.path \notin Range(QueueOf(Addressed(view))))
     => /\ del'.ret = "failure"
        /\ UNCHANGED queueVars]_vars

\* the unlink calls that a step added to those a clear has issued
NewlyIssued ==
  {pendingUnlink'[i] : i \in (Len(pendingUnlink) + 1)..Len(pendingUnlink')}

\* a step that runs clearQueues
CallsClearQueues == ClearQueues \/ Reset

\* a step that runs clearExtraScreenshotQueue: the direct call, and the call
\* processScreenshotsHelper makes once the solution was generated
CallsClearExtraScreenshotQueue ==
  \/ ClearExtraScreenshotQueue
  \/ \E r \in Runs : runs[r].pc = "analyze" /\ runs'[r].result = "success"

\* C5: a clear issues a deletion for every member of each queue it clears and
\* leaves that queue empty in the same step; the callback of a deletion,
\* failed or not, changes no queue, and a failed one is recorded as logged.
C5_ClearEmptiesDespiteFailures ==
  [][/\ CallsClearQueues =>
          /\ screenshotQueue' = << >> /\ extraScreenshotQueue' = << >>
          /\ Range(screenshotQueue) \cup Range(extraScreenshotQueue)
               \subseteq NewlyIssued
     /\ CallsClearExtraScreenshotQueue =>
          /\ extraScreenshotQueue' = << >>
          /\ Range(extraScreenshotQueue) \subseteq NewlyIssued
     /\ \A p \in Ids : UnlinkCallback(p) =>
          /\ UNCHANGED queueVars
          /\ p \in disk' => p \in unlinkErrors']_vars

\* a deletion issued by a clear failed and left its file behind, the error was
\* logged, and both queues are empty
C5_Witness ==
  /\ clears > 0
  /\ \E p \in unlinkErrors : p \in disk
  /\ screenshotQueue = << >> /\ extraScreenshotQueue = << >>
  /\ pendingUnlink = << >>

\* C6: the two queues share no member, neither holds a member twice, and each
\* member is in the queue of the view takeScreenshot read when it built the
\* path: paths of the screenshots directory in the primary queue, paths of
\* the extra_screenshots directory in the supplementary queue.
C6_QueuesDisjoint ==
  /\ Range(screenshotQueue) \cap Range(extraScreenshotQueue) = {}
  /\ NoDuplicates(screenshotQueue)
  /\ NoDuplicates(extraScreenshotQueue)
  /\ \A p \in Range(screenshotQueue) : dirOf[p] = "screenshots"
  /\ \A p \in Range(extraScreenshotQueue) : dirOf[p] = "extra_screenshots"

\* both queues hold images
C6_Witness ==
  /\ screenshotQueue # << >>
  /\ extraScreenshotQueue # << >>

----------------------------------------------------------------------------
\* Properties of the pipeline runs

\* a step in which run r moves on: one of its awaits settled
StepOf(r) == runs'[r].pc # runs[r].pc

\* the events a step appended to those run r has sent
NewEvents(r) ==
  {events'[r][i] : i \in (Len(events[r]) + 1)..Len(events'[r])}

\* C7: two runs of the same role are never in flight together unless the
\* token of the earlier one has been aborted: the start of a run aborts the
\* token of every run of its role that is still in flight.
C7_OneActiveRunPerRole ==
  \A r1, r2 \in Runs :
    (/\ r1 < r2
     /\ InFlight(r1) /\ InFlight(r2)
     /\ runs[r1].role = runs[r2].role)
    => runs[r1].aborted

\* C8: once a later run of its role has started, a run that was in flight at
\* that moment does not set the problem info, sends neither PROBLEM_EXTRACTED
\* nor SOLUTION_SUCCESS, and does not change the view.
C8_SupersededRunIsInert ==
  [][\A r \in superseded : StepOf(r) =>
       /\ problemInfo' = r => problemInfo = r
       /\ NewEvents(r) \cap {"PROBLEM_EXTRACTED", "SOLUTION_SUCCESS"} = {}
       /\ view' = view]_vars

\* C9: once cancelOngoingRequests has run, a run that was in flight at that
\* moment does not set the problem info, sends none of PROBLEM_EXTRACTED,
\* SOLUTION_SUCCESS and DEBUG_SUCCESS, does not set hasDebugged and does not
\* switch the view to "solutions"; the problem info is never that of a
\* cancelled run.
C9_CancellationWins ==
  [][/\ problemInfo' \notin cancelled'
     /\ \A r \in cancelled : StepOf(r) =>
          /\ NewEvents(r) \cap {"PROBLEM_EXTRACTED", "SOLUTION_SUCCESS",
                                "DEBUG_SUCCESS"} = {}
          /\ hasDebugged' => hasDebugged
          /\ view' = "solutions" => view = "solutions"]_vars

\* C10: every provider call in flight (extract, analyze, debug) was given the
\* signal of its run's AbortController.
C10_EveryCallCarriesSignal ==
  \A r \in Runs :
    runs[r].pc \in {"extract", "analyze", "debug"} => runs[r].signalled

\* the events that report a failure to the renderer
FailureEvents == {"INITIAL_SOLUTION_ERROR", "DEBUG_ERROR", "API_KEY_INVALID"}

\* C11: a run that ends because its provider call was rejected by the aborted
\* signal sends no INITIAL_SOLUTION_ERROR, no DEBUG_ERROR and no
\* API_KEY_INVALID.
C11_CancelledRunIsNoFailure ==
  [][\A r \in Runs :
       (StepOf(r) /\ runs'[r].kind = "aborted")
       => NewEvents(r) \cap FailureEvents = {}]_vars

\* a step in which processScreenshots is called in the "queue" view
TriggeredInQueueView == ProcessNoScreenshots \/ ProcessStartMain

\* C12: a call of processScreenshots in the "queue" view with an empty
\* primary queue sends NO_SCREENSHOTS, creates no run (so issues no provider
\* call) and sends neither INITIAL_SOLUTION_ERROR nor API_KEY_INVALID.
C12_EmptyQueueIsNoFailure ==
  [][(TriggeredInQueueView /\ screenshotQueue = << >>)
     => /\ "NO_SCREENSHOTS" \in signals'
        /\ (signals' \ signals) \cap FailureEvents = {}
        /\ runs' = runs /\ nextRun' = nextRun /\ events' = events]_vars

\* processing was triggered before any screenshot was taken
C12_Witness ==
  /\ "NO_SCREENSHOTS" \in signals
  /\ nextId = 1
  /\ nextRun = 1

\* C13: a call of processScreenshots in the "queue" view while the primary
\* queue is empty, or holds no entry whose file exists, sends no
\* INITIAL_START, creates no AbortController and no run.
C13_NoStartWithoutScreenshots ==
  [][(TriggeredInQueueView /\ NothingToProcess(screenshotQueue))
     => /\ "INITIAL_START" \notin signals' \ signals
        /\ events' = events
        /\ runs' = runs /\ nextRun' = nextRun
        /\ UNCHANGED currentProcessingAbortController]_vars

\* C14: the analyze call of a run is issued only in the step in which its
\* extract call succeeded and the problem info was replaced by its result,
\* and a run that succeeds has sent INITIAL_START, PROBLEM_EXTRACTED and
\* SOLUTION_SUCCESS (twice: by the helper and by processScreenshots) in that
\* order.
C14_ExtractPrecedesAnalyze ==
  [][\A r \in Runs :
       /\ (runs'[r].pc = "analyze" /\ runs[r].pc # "analyze")
          => /\ runs[r].pc = "extract"
             /\ problemInfo' = r
             /\ "PROBLEM_EXTRACTED" \in NewEvents(r)
       /\ (StepOf(r) /\ runs'[r].role = "main" /\ runs'[r].result = "success")
          => /\ runs[r].pc = "analyze"
             /\ events'[r] = <<"INITIAL_START", "PROBLEM_EXTRACTED",
                               "SOLUTION_SUCCESS", "SOLUTION_SUCCESS">>]_vars

\* a run went through extract and analyze and succeeded
C14_Witness ==
  \E r \in Runs : runs[r].role = "main" /\ runs[r].result = "success"

\* a step in which run r issues its debug provider call
IssuesDebugCall(r) == runs'[r].pc = "debug" /\ runs[r].pc # "debug"

\* C15: DEBUG_START is sent and a debug call is issued only after some
\* extract+analyze run has succeeded, and a debug call is issued only while
\* the problem info is set.
C15_DebugOnlyAfterDone ==
  [][\A r \in Runs :
       /\ ("DEBUG_START" \in NewEvents(r) \/ IssuesDebugCall(r))
          => \E d \in Runs :
               runs[d].role = "main" /\ runs[d].result = "success"
       /\ IssuesDebugCall(r)
          => problemInfo # NoRun /\ problemInfo' # NoRun]_vars

\* a debug call is in flight
C15_Witness == \E r \in Runs : runs[r].pc = "debug"

\* a step in which the extract + analyze run r ends
EndsMainRun(r) ==
  /\ runs[r].role = "main"
  /\ runs[r].pc # "done" /\ runs'[r].pc = "done"

\* C16: the step that ends an extract + analyze run in success empties the
\* supplementary queue and leaves the primary queue as it was, and the
\* supplementary queue is empty in every step that sends SOLUTION_SUCCESS;
\* the step that ends such a run in failure changes neither queue.
C16_SuccessClearsExtraQueue ==
  [][\A r \in Runs :
       /\ (EndsMainRun(r) /\ runs'[r].result = "success")
          => /\ "SOLUTION_SUCCESS" \in NewEvents(r)
             /\ extraScreenshotQueue' = << >>
             /\ screenshotQueue' = screenshotQueue
       /\ "SOLUTION_SUCCESS" \in NewEvents(r) => extraScreenshotQueue' = << >>
       /\ (EndsMainRun(r) /\ runs'[r].result = "failed")
          => /\ extraScreenshotQueue' = extraScreenshotQueue
             /\ screenshotQueue' = screenshotQueue]_vars

\* a successful run has just emptied a supplementary queue that held a
\* screenshot: no clear, reset or delete was called, the primary queue still
\* holds its screenshot, and the unlink of the supplementary one was issued
C16_Witness ==
  /\ \E r \in Runs : runs[r].role = "main" /\ runs[r].result = "success"
  /\ clears = 0 /\ delCalls = 0
  /\ screenshotQueue # << >>
  /\ extraScreenshotQueue = << >>
  /\ \E i \in 1..Len(pendingUnlink) :
       dirOf[pendingUnlink[i]] = "extra_screenshots"

\* the error strings that tell the user the provider limited the rate
SaysRateLimited(msg) ==
  msg \in {AnthropicMessage("extract", "e429"), OpenAIMessage("e429")}

\* C17: when the analyze call of a run fails with HTTP 429 after a successful
\* extract, the run sends no SOLUTION_SUCCESS, the one event it sends is the
\* stage error, with a text that says the rate was limited, and not
\* API_KEY_INVALID, and the view is "queue" again.
C17_RateLimitedAnalyze ==
  [][\A r \in Runs :
       (/\ EndsMainRun(r)
        /\ runs[r].pc = "analyze"
        /\ runs'[r].kind = "e429")
       => /\ "SOLUTION_SUCCESS" \notin Range(events'[r])
          /\ NewEvents(r) = {"INITIAL_SOLUTION_ERROR"}
          /\ SaysRateLimited(runs'[r].error)
          /\ view' = "queue"]_vars

\* a step in which run r ends as failed
EndsFailed(r) ==
  /\ runs[r].pc # "done" /\ runs'[r].pc = "done"
  /\ runs'[r].result = "failed"

\* C18: a run that ends as failed sends API_KEY_INVALID exactly when the
\* failure is a rejected key (HTTP 401): a rate limit, a payload too large,
\* a server error and a cancellation are never reported as API_KEY_INVALID.
C18_KeyInvalidIffUnauthenticated ==
  [][\A r \in Runs :
       EndsFailed(r)
       => ("API_KEY_INVALID" \in NewEvents(r) <=> runs'[r].kind = "e401")]_vars

\* C19: the step that ends an extract + analyze run as failed leaves the view
\* of the main process at "queue" and the view the renderer shows at
\* "queue".
C19_FailedReturnsToQueue ==
  [][\A r \in Runs :
       (EndsMainRun(r) /\ runs'[r].result = "failed")
       => view' = "queue" /\ renderer'.view = "queue"]_vars

\* a step in which the debug run r is triggered
StartsDebugRun(r) == runs[r].pc = "none" /\ runs'[r].role = "extra"

\* the union of the two queues
QueuedPaths == Range(screenshotQueue) \cup Range(extraScreenshotQueue)

\* what every step of the debug run r leaves alone, and what the step that
\* ends it does to hasDebugged
DebugRunEffects(r) ==
  /\ (StepOf(r) /\ runs'[r].role = "extra")
     => /\ problemInfo' = problemInfo
        /\ renderer'.solution = renderer.solution
        /\ screenshotQueue' = screenshotQueue
        /\ extraScreenshotQueue' = extraScreenshotQueue
  /\ (StepOf(r) /\ runs'[r].role = "extra" /\ runs'[r].result = "success")
     => hasDebugged' = TRUE /\ "DEBUG_SUCCESS" \in NewEvents(r)
  /\ (StepOf(r) /\ runs'[r].role = "extra" /\ runs'[r].result = "failed")
     => hasDebugged' = hasDebugged /\ "DEBUG_ERROR" \in NewEvents(r)

\* C20 as stated: what a debug run sends to the provider is the union of
\* the two queues as they were when it was triggered; on success it sets
\* hasDebugged and sends DEBUG_SUCCESS, on failure it leaves hasDebugged
\* alone, and no step of it changes the problem info, the solution or a
\* queue.
C20_Original ==
  [][\A r \in Runs :
       /\ StartsDebugRun(r) => runs'[r].shots = QueuedPaths
       /\ IssuesDebugCall(r) => runs'[r].shots = runs[r].shots
       /\ DebugRunEffects(r)]_vars

\* C20: a debug run takes the union of the two queues when it is triggered
\* and sends to the provider those of them that can still be read when it
\* loads them, at least one; on success it sets hasDebugged and sends
\* DEBUG_SUCCESS, on failure it leaves hasDebugged alone, and no step of it
\* changes the problem info, the solution or a queue.
C20_DebugSendsReadableUnion ==
  [][\A r \in Runs :
       /\ StartsDebugRun(r) => runs'[r].shots = QueuedPaths
       /\ IssuesDebugCall(r)
          => /\ runs'[r].shots = runs[r].shots \cap disk
             /\ runs'[r].shots # {}
       /\ DebugRunEffects(r)]_vars

\* a debug run over a screenshot of each queue has succeeded
C20_Witness ==
  /\ \E r \in Runs : runs[r].role = "extra" /\ runs[r].result = "success"
  /\ hasDebugged
  /\ screenshotQueue # << >>
  /\ extraScreenshotQueue # << >>

----------------------------------------------------------------------------
\* Properties of the configuration and of the capture

\* the providers whose client field is not null
ActiveClients == {p \in Providers : HasClient(p)}

\* C21: at most one of openaiClient, geminiApiKey and anthropicClient is
\* not null, and one that is not null is the field of the provider the
\* configuration named when initializeAIClient last ran.
C21_OneProviderActive ==
  /\ Cardinality(ActiveClients) <= 1
  /\ ActiveClients \subseteq {apiProvider}

\* the configuration was switched to another provider after a run began,
\* and the client of the new provider is the one that is set
C21_Witness ==
  \E r \in Runs :
    /\ runs[r].configured \in Providers \ {apiProvider}
    /\ ActiveClients = {apiProvider}

\* a step in which run r issues the provider call of the stage
IssuesCall(r, stage) == runs'[r].pc = stage /\ runs[r].pc # stage

\* C22: the extract call and the analyze call of a run are issued to the
\* provider the configuration named when the run was triggered, whatever
\* the configuration has become while the run was in flight.
C22_NoMixedProviderRun ==
  [][\A r \in Runs :
       (IssuesCall(r, "extract") \/ IssuesCall(r, "analyze"))
       => runs'[r].provider = runs[r].configured]_vars

\* a step in which the takeScreenshot invocation t ends because
\* captureScreenshot rejected
CaptureFails(t) == shot[t].pc = "capture" /\ shot'[t].pc = "idle"

\* C23: a capture fails only after the in-memory capture of the library, the
\* capture through a temporary file and the native script have each been
\* attempted.
C23_CaptureFallbackChain ==
  [][\A t \in Shots :
       CaptureFails(t)
       => shot[t].attempted = {"library", "tempfile", "native"}]_vars

\* a step in which the takeScreenshot invocation t returns or rethrows
TakeScreenshotEnds(t) == shot[t].pc # "idle" /\ shot'[t].pc = "idle"

----------------------------------------------------------------------------
\* Response parsing (SpecParse)

Parsed == formattedResponse # NotParsed

\* the text of the response, << >> if the content is absent
RawText == responseContent.text

\* the text that follows the first label on its line, if that line is the
\* last of the response that is not empty; << >> otherwise
LabelledLine(label) ==
  LET at == Positions(RawText, label)
      a == First(at)
      e == LineEnd(RawText, a + 1)
  IN  IF at = {} THEN << >>
      ELSE IF a + 1 > Len(RawText) \/ RawText[a + 1] = "NL" THEN << >>
      ELSE IF \E i \in (e + 1)..Len(RawText) : RawText[i] # "NL" THEN << >>
      ELSE SubSeq(RawText, a + 1, e)

HasNotation(c) == Positions(c, "BIGO") # {}

\* C25: parsing never fails: every response, its content absent or of any
\* text, yields a result and not a failure, and a response with no code
\* block, no labelled section and no complexity label yields empty code, the
\* default thoughts and the "not applicable" sentinel for both complexities.
C25_ParseNeverFails ==
  Parsed =>
    /\ formattedResponse.success
    /\ (\A tok \in {"FENCE", "THOUGHTS", "TIME", "SPACE"} :
          Positions(RawText, tok) = {})
         => /\ formattedResponse.code = << >>
            /\ formattedResponse.thoughts = DefaultThoughts
            /\ formattedResponse.time_complexity = NotApplicable
            /\ formattedResponse.space_complexity = NotApplicable

\* C26: a labelled complexity line whose text has Big-O notation in it is
\* returned unchanged, for the time and for the space complexity.
C26_NotationUnchanged ==
  (Parsed /\ responseContent.present) =>
    /\ HasNotation(LabelledLine("TIME"))
         => formattedResponse.time_complexity = LabelledLine("TIME")
    /\ HasNotation(LabelledLine("SPACE"))
         => formattedResponse.space_complexity = LabelledLine("SPACE")

\* C27: a labelled complexity line whose text has no Big-O notation in it is
\* returned as "O(n) - " followed by that text, and a complexity is the "not
\* applicable" sentinel, never null, when no label matches.
C27_NoNotationNormalised ==
  (Parsed /\ responseContent.present) =>
    /\ (LabelledLine("TIME") # << >> /\ ~HasNotation(LabelledLine("TIME")))
         => formattedResponse.time_complexity
              = <<"O(n)", "DASH">> \o LabelledLine("TIME")
    /\ Positions(RawText, "TIME") = {}
         => formattedResponse.time_complexity = NotApplicable
    /\ Positions(RawText, "SPACE") = {}
         => formattedResponse.space_complexity = NotApplicable


----------------------------------------------------------------------------
\* Reset against what is in flight (SpecQueue: every clear is a reset)

\* takeScreenshot invocation t began before the last reset and has not ended
InFlightAtReset(t) == shot[t].pc # "idle" /\ shot[t].epoch < clears

ActsShot(t) == shot'[t] # shot[t]

\* C28: a reset leaves both queues empty and the problem info and hasDebugged
\* cleared, and what was in flight when it happened keeps it so: a capture
\* that began before the reset adds no entry to a queue, and a run that was
\* in flight at the reset sets neither the problem info nor hasDebugged.
C28_ResetStaysClean ==
  [][/\ Reset => /\ screenshotQueue' = << >>
                 /\ extraScreenshotQueue' = << >>
                 /\ problemInfo' = NoRun
                 /\ ~hasDebugged'
     /\ \A t \in Shots : (InFlightAtReset(t) /\ ActsShot(t)) =>
          /\ Len(screenshotQueue') <= Len(screenshotQueue)
          /\ Len(extraScreenshotQueue') <= Len(extraScreenshotQueue)
     /\ \A r \in cancelled : StepOf(r) =>
          /\ problemInfo' \in {problemInfo, NoRun}
          /\ hasDebugged' => hasDebugged]_vars


----------------------------------------------------------------------------
\* Deletions in flight

\* the unlink operations on path p that have been issued and have not
\* settled: by deleteScreenshot, by the eviction of takeScreenshot and by
\* the clears
UnlinksInFlight(p) ==
  (IF del.pc = "unlink" /\ del.path = p THEN 1 ELSE 0)
    + Cardinality({t \in Shots : shot[t].pc = "unlink" /\ shot[t].removed = p})
    + Cardinality(Positions(pendingUnlink, p))

\* C29: no path has two unlink operations in flight at once; the delete, the
\* eviction and the clear of one path exclude each other.
C29_OneUnlinkPerPath == \A p \in Ids : UnlinksInFlight(p) <= 1


----------------------------------------------------------------------------
\* Termination of the runs, as safety: every call is bounded in time

\* a step in which run r reaches its outcome
EndsRun(r) == runs[r].pc # "done" /\ runs'[r].pc = "done"

\* C30: every provider call a run issues is under a request timeout of its
\* provider's client, so that the run reaches an outcome, and the step in
\* which a run reaches its outcome empties the controller field of its role.
C30_EveryCallTimesOut ==
  [][\A r \in Runs :
       /\ \A stage \in {"extract", "analyze", "debug"} :
            IssuesCall(r, stage) => RequestTimeout(runs'[r].provider) > 0
       /\ (EndsRun(r) /\ runs[r].role = "main")
            => currentProcessingAbortController' = NoRun
       /\ (EndsRun(r) /\ runs[r].role = "extra")
            => currentExtraProcessingAbortController' = NoRun]_vars


----------------------------------------------------------------------------
\* The controller fields and cancelOngoingRequests

\* the controller field of a role
ControllerOf(role) ==
  IF role = "main" THEN currentProcessingAbortController
  ELSE currentExtraProcessingAbortController

\* C31: the controller field of a role refers to every run of that role that
\* is in flight and has not been aborted, so that cancelOngoingRequests
\* aborts every run in flight, also when runs of one role overlap and one
\* of them ends first.
C31_FieldHoldsEveryRunInFlight ==
  \A r \in Runs :
    (InFlight(r) /\ ~runs[r].aborted) => ControllerOf(runs[r].role) = r


\* C32: a call of cancelOngoingRequests leaves both controller fields empty,
\* the problem info empty and hasDebugged false, whatever was in flight; it
\* sends NO_SCREENSHOTS if one of the fields held a controller and sends
\* nothing otherwise; it changes neither queue nor the view.
C32_CancelEffects ==
  [][CancelOngoingRequests =>
       /\ currentProcessingAbortController' = NoRun
       /\ currentExtraProcessingAbortController' = NoRun
       /\ problemInfo' = NoRun
       /\ ~hasDebugged'
       /\ Controllers # {} => "NO_SCREENSHOTS" \in signals'
       /\ Controllers = {} => signals' = signals /\ renderer' = renderer
       /\ UNCHANGED <<screenshotQueue, extraScreenshotQueue, view>>]_vars

\* cancelOngoingRequests, and no reset or clear, has aborted a run in flight
C32_Witness ==
  /\ clears = 0
  /\ \E r \in cancelled : runs[r].aborted
  /\ "NO_SCREENSHOTS" \in signals
  /\ Controllers = {}


----------------------------------------------------------------------------
\* The terminal events of an extract + analyze run

\* how many of the events run r has sent are in the set evs
Sent(r, evs) == Cardinality({i \in 1..Len(events[r]) : events[r][i] \in evs})

\* C33: an extract + analyze run sends exactly one terminal event: a run
\* that ended in success has sent SOLUTION_SUCCESS once and no failure event,
\* a run that ended as failed has sent one event that is INITIAL_SOLUTION_ERROR
\* or API_KEY_INVALID and no SOLUTION_SUCCESS, and no run sends more.
C33_OneTerminalEvent ==
  \A r \in Runs :
    runs[r].role = "main" =>
      /\ Sent(r, {"SOLUTION_SUCCESS"}) > 0
           => Sent(r, {"INITIAL_SOLUTION_ERROR", "API_KEY_INVALID"}) = 0
      /\ (runs[r].pc = "done" /\ runs[r].result = "success")
           => Sent(r, {"SOLUTION_SUCCESS"}) = 1
      /\ (runs[r].pc = "done" /\ runs[r].result = "failed")
           => Sent(r, {"INITIAL_SOLUTION_ERROR", "API_KEY_INVALID"}) = 1


----------------------------------------------------------------------------
\* deleteScreenshot and the two queues

\* a step in which deleteScreenshot returns {success: true}
DeleteSucceeds == del.pc = "unlink" /\ del'.pc = "idle" /\ del'.ret = "success"

\* C34: when deleteScreenshot(path) returns {success: true} the path is in
\* neither queue, whatever the path, and whatever the view has become and
\* the captures have done while the unlink was in flight.
C34_DeletedPathLeavesQueues ==
  [][DeleteSucceeds =>
       del.path \notin Range(screenshotQueue') \cup Range(extraScreenshotQueue')]_vars


----------------------------------------------------------------------------
\* takeScreenshot calls that fail

\* the paths a step adds to one of the queues
Added ==
  (Range(screenshotQueue') \cup Range(extraScreenshotQueue'))
    \ (Range(screenshotQueue) \cup Range(extraScreenshotQueue))

\* C35: a takeScreenshot call in which the capture or the write of the file
\* throws rethrows the error and changes neither queue, a call that ends
\* with an error has added nothing, and a path is added to a queue only by
\* the step that follows the successful write of its file.
C35_FailedCaptureLeavesQueues ==
  [][/\ \A t \in Shots :
          (CaptureFailed(t) \/ WriteFailed(t)) => shot'[t].ret = "error"
     /\ \A t \in Shots :
          (TakeScreenshotEnds(t) /\ shot'[t].ret = "error")
            => /\ UNCHANGED <<screenshotQueue, extraScreenshotQueue>>
               /\ shot[t].path \notin
                    Range(screenshotQueue) \cup Range(extraScreenshotQueue)
     /\ \A p \in Added :
          /\ p \in disk'
          /\ \E t \in Shots : shot[t].pc = "write" /\ shot[t].path = p]_vars

\* the write of a file has failed while the main queue held an entry
C35_Witness ==
  \E t \in Shots :
    /\ shot[t].ret = "error"
    /\ nextId = 3
    /\ screenshotQueue = <<1>>
    /\ disk = {1}


----------------------------------------------------------------------------
\* Overlapping takeScreenshot invocations (SpecOverlap)

\* invocation t has called hideMainWindow and its capture has not resolved
Capturing(t) == shot[t].pc = "capture"

\* C36: while a capture is being taken the window is hidden: no invocation
\* calls showMainWindow while another one is between its hideMainWindow and
\* the end of its capture.
C36_NoShowDuringCapture ==
  [][\A t, u \in Shots :
       (t # u /\ TakeScreenshotEnds(t)) => ~Capturing(u)]_vars


----------------------------------------------------------------------------
\* processScreenshots without a client

\* C37: processScreenshots called while the configured provider has no
\* client sends API_KEY_INVALID and nothing else: no run is started, no
\* controller is created, no call is issued, and the view, the queues and
\* the problem info are as they were; and no run starts in any step taken
\* while the configured provider has no client.
C37_NoClientOnlyKeyInvalid ==
  [][/\ ProcessNoClient =>
          /\ "API_KEY_INVALID" \in signals'
          /\ signals' \ signals \subseteq {"API_KEY_INVALID"}
          /\ renderer'.view = renderer.view
          /\ UNCHANGED <<runs, nextRun, events, view, screenshotQueue,
                         extraScreenshotQueue, problemInfo,
                         currentProcessingAbortController,
                         currentExtraProcessingAbortController>>
     /\ ~HasClient(apiProvider) =>
          \A r \in Runs : runs[r].pc = "none" => runs'[r].pc = "none"]_vars

\* processing was triggered with a screenshot queued and no client
C37_Witness ==
  /\ ~HasClient(apiProvider)
  /\ "API_KEY_INVALID" \in signals
  /\ Len(screenshotQueue) > 0
  /\ nextRun = 1

====
